---- MODULE Spec2Model ----
(***************************************************************************)
(* Model of tvb/adapters/analyzers/bct_adapters.py: the adapters that run  *)
(* Brain Connectivity Toolbox functions through a MATLAB/Octave worker.    *)
(*                                                                         *)
(* Python objects live in a heap (a sequence of records, a reference is an *)
(* index); heap[1] is the Connectivity handed to launch.  A launch call is *)
(* split at its one blocking point, the worker's matlab() call: LaunchCall *)
(* runs up to the submission, EngineRespond / EngineRaise is the worker    *)
(* coming back and the rest of launch running to its return or its raise.  *)
(***************************************************************************)
EXTENDS Integers, Sequences, FiniteSets, TLC

VARIABLES
    MATLAB_EXECUTABLE,  \* TvbProfile.current.MATLAB_EXECUTABLE
    heap,               \* the objects: heap[1] the input Connectivity, then the outputs built
    pc,                 \* "idle" | "waiting" (inside matlab()) | "returned" | "raised"
    self,               \* class of the adapter whose launch is running, "None" when idle
    extra,              \* the **kwargs the caller passed to launch
    matlab_worker,      \* self.matlab_worker: its search path and the calls it received
    response,           \* what matlab() returned: <<>> or <<[runcode, matlablog, result]>>
    launch_result,      \* launch's local result: what execute_matlab returned to it
    ret,                \* the last call's return value: [op, cls, val]
    exc                 \* the exception the last call raised: [type, arg]

vars == <<MATLAB_EXECUTABLE, heap, pc, self, extra, matlab_worker, response, launch_result, ret, exc>>

(***************************************************************************)
(* Bounds of the model.                                                    *)
(***************************************************************************)
MaxVal == 1        \* scalars are 1..MaxVal
MaxArrayLen == 2   \* arrays hold 1..MaxArrayLen elements

(***************************************************************************)
(* Values exchanged with the engine: Python ints and floats, and arrays.   *)
(***************************************************************************)
IntVal(n) == [kind |-> "int", data |-> <<n>>]
FloatVal(n) == [kind |-> "float", data |-> <<n>>]
ArrayVal(n) == [kind |-> "array", data |-> [i \in 1..n |-> i]]

Scalars == {IntVal(n) : n \in 1..MaxVal} \cup {FloatVal(n) : n \in 1..MaxVal}
Arrays == {ArrayVal(n) : n \in 1..MaxArrayLen}
EngineValues == Scalars \cup Arrays

\* Python dictionaries: functions from a finite set of keys.
EmptyDict == [n \in {} |-> 0]
DictSet(d, k, v) == [n \in (DOMAIN d) \cup {k} |-> IF n = k THEN v ELSE d[n]]
Dicts(keys, values) == UNION {[S -> values] : S \in SUBSET keys}

\* Exceptions.
NoExc == [type |-> "None", arg |-> ""]
KeyError(key) == [type |-> "KeyError", arg |-> key]
TypeError(key) == [type |-> "TypeError", arg |-> key]
EngineError == [type |-> "EngineError", arg |-> ""]

\* float(x): an int becomes the float of the same value, a float is itself, an
\* array converts only when it holds exactly one element.
FloatConvertible(x) == x.kind \in {"int", "float"} \/ Len(x.data) = 1
float(x) == FloatVal(x.data[1])

\* int(x), likewise.
int(x) == IntVal(x.data[1])

(***************************************************************************)
(* Module constants.                                                       *)
(***************************************************************************)
BCT_PATH == "EXTERNALS_FOLDER_PARENT/externals/BCT"

(***************************************************************************)
(* The class hierarchy and what each class body defines.                   *)
(***************************************************************************)
Classes == {"BaseBCT", "BaseUndirected", "ModularityOCSM", "ModularityOpCSMU",
            "DistanceDBIN", "DistanceDWEI", "DistanceRDM", "DistanceRDA", "DistanceNETW"}

\* The base class named in each class statement (ABCAsynchronous is outside).
Base ==
    [c \in Classes |->
        CASE c = "BaseBCT" -> "ABCAsynchronous"
          [] c = "BaseUndirected" -> "BaseBCT"
          [] c = "ModularityOCSM" -> "BaseBCT"
          [] c = "ModularityOpCSMU" -> "ModularityOCSM"
          [] c = "DistanceDBIN" -> "BaseBCT"
          [] c = "DistanceDWEI" -> "DistanceDBIN"
          [] c = "DistanceRDM" -> "DistanceDBIN"
          [] c = "DistanceRDA" -> "DistanceRDM"
          [] c = "DistanceNETW" -> "DistanceDBIN"]

\* The classes whose launch is not abstract somewhere up the chain: the adapters.
Variants == Classes \ {"BaseBCT", "BaseUndirected"}

\* _matlab_code as each class body sets it.
OwnMatlabCode ==
    [c \in Variants |->
        CASE c = "ModularityOCSM" -> "[Ci,Q] = modularity_dir(CW);"
          [] c = "ModularityOpCSMU" -> "[Ci,Q] = modularity_und(CW);"
          [] c = "DistanceDBIN" -> "D = distance_bin(A);"
          [] c = "DistanceDWEI" -> "D = distance_wei(A);"
          [] c = "DistanceRDM" -> "[R,D] = breadthdist(A);"
          [] c = "DistanceRDA" -> "[R,D] = reachdist(A);"
          [] c = "DistanceNETW" -> "[Wq,twalk,wlq]  = findwalks(A);"]

\* _ui_connectivity_label as the class bodies that set it.
OwnConnectivityLabel ==
    [c \in {"BaseBCT", "BaseUndirected", "ModularityOCSM", "DistanceDWEI"} |->
        CASE c = "BaseBCT" -> "Connection matrix:"
          [] c = "BaseUndirected" -> "Undirected connection matrix:"
          [] c = "ModularityOCSM" -> "Directed (weighted or binary) connection matrix:"
          [] c = "DistanceDWEI" -> "Weighted (directed/undirected) connection matrix:"]

\* The classes whose body defines a concrete launch / get_input_tree.
DefinesLaunch == {"ModularityOCSM", "DistanceDBIN", "DistanceRDM", "DistanceNETW"}
DefinesInputTree == {"BaseBCT", "BaseUndirected"}

\* Attribute lookup: the first class on the chain from c upwards that is in owners.
RECURSIVE Resolve(_, _)
Resolve(c, owners) ==
    IF c \in owners THEN c
    ELSE IF c \in Classes THEN Resolve(Base[c], owners)
    ELSE "None"

\* self._matlab_code and self._ui_connectivity_label on an instance of class c.
matlab_code(c) == OwnMatlabCode[Resolve(c, DOMAIN OwnMatlabCode)]
ui_connectivity_label(c) == OwnConnectivityLabel[Resolve(c, DOMAIN OwnConnectivityLabel)]

(***************************************************************************)
(* The snippets, token by token, and the variables they read and assign.   *)
(***************************************************************************)
Lex(code) ==
    CASE code = "[Ci,Q] = modularity_dir(CW);" ->
            <<"[", "Ci", ",", "Q", "]", "=", "modularity_dir", "(", "CW", ")", ";">>
      [] code = "[Ci,Q] = modularity_und(CW);" ->
            <<"[", "Ci", ",", "Q", "]", "=", "modularity_und", "(", "CW", ")", ";">>
      [] code = "D = distance_bin(A);" ->
            <<"D", "=", "distance_bin", "(", "A", ")", ";">>
      [] code = "D = distance_wei(A);" ->
            <<"D", "=", "distance_wei", "(", "A", ")", ";">>
      [] code = "[R,D] = breadthdist(A);" ->
            <<"[", "R", ",", "D", "]", "=", "breadthdist", "(", "A", ")", ";">>
      [] code = "[R,D] = reachdist(A);" ->
            <<"[", "R", ",", "D", "]", "=", "reachdist", "(", "A", ")", ";">>
      [] code = "[Wq,twalk,wlq]  = findwalks(A);" ->
            <<"[", "Wq", ",", "twalk", ",", "wlq", "]", "=", "findwalks", "(", "A", ")", ";">>

Position(toks, t) == CHOOSE i \in 1..Len(toks) : toks[i] = t
Punctuation == {"[", "]", ",", "=", "(", ")", ";"}

\* The variables a snippet assigns (left of "=") and reads (between the brackets).
OutputVars(code) ==
    LET toks == Lex(code)
    IN  {toks[i] : i \in 1..(Position(toks, "=") - 1)} \ Punctuation
InputVars(code) ==
    LET toks == Lex(code)
    IN  {toks[i] : i \in (Position(toks, "(") + 1)..(Position(toks, ")") - 1)} \ Punctuation
CalledFunction(code) ==
    LET toks == Lex(code)
    IN  toks[Position(toks, "(") - 1]

(***************************************************************************)
(* The objects of the heap.                                                *)
(***************************************************************************)
Connectivity(weights, undirected) ==
    [type |-> "Connectivity", weights |-> weights, undirected |-> undirected]

ConnectivityMeasure(array_data, connectivity, title, label_x, label_y) ==
    [type |-> "ConnectivityMeasure", array_data |-> array_data, connectivity |-> connectivity,
     title |-> title, label_x |-> label_x, label_y |-> label_y]

ValueWrapper(data_value, data_type, data_name) ==
    [type |-> "ValueWrapper", data_value |-> data_value, data_type |-> data_type,
     data_name |-> data_name]

\* The reference launch receives as its connectivity argument.
CONN == 1

\* What a builder leaves behind: the exception it raised (NoExc when none), the
\* heap after it, and the reference to the object it returns.
Built(h, obj) == [exc |-> NoExc, heap |-> Append(h, obj), ref |-> Len(h) + 1]
Raised(h, e) == [exc |-> e, heap |-> h, ref |-> 0]

(***************************************************************************)
(* The MATLAB worker (tvb.adapters.analyzers.matlab_worker).               *)
(***************************************************************************)
MatlabWorker == [paths |-> {}, calls |-> <<>>]

add_to_path(w, path) ==
    [paths |-> w.paths \cup {path},
     calls |-> Append(w.calls, [op |-> "add_to_path", path |-> path, code |-> "",
                                data |-> EmptyDict, paths |-> w.paths \cup {path}])]

matlab(w, code, data) ==
    [paths |-> w.paths,
     calls |-> Append(w.calls, [op |-> "matlab", path |-> "", code |-> code,
                                data |-> data, paths |-> w.paths])]

RunCodes == {0, 1}
MatlabLogs == {"", "??? Undefined function or variable"}

(***************************************************************************)
(* BaseBCT.                                                                *)
(***************************************************************************)
\* A Python string or None.
NoneStr == [isNone |-> TRUE, chars |-> <<>>]
Str(chars) == [isNone |-> FALSE, chars |-> chars]
Truthy(s) == ~s.isNone /\ Len(s.chars) > 0

\* Seeded defect: only None counts as unset, the empty string passes.
can_be_active_not_none(executable) == ~executable.isNone

can_be_active(executable) == ~ ~Truthy(executable)

BaseBCT_get_input_tree(c) ==
    <<[name |-> "connectivity", label |-> ui_connectivity_label(c), type |-> "Connectivity",
       required |-> TRUE, conditions |-> <<>>]>>

get_output == <<"ConnectivityMeasure", "ValueWrapper">>

get_required_memory_size == -1

get_required_disk_size == 0

\* Seeded defect: the code is submitted a second time.
execute_matlab_call_twice(w, code, kwargs) ==
    matlab(matlab(add_to_path(w, BCT_PATH), code, kwargs), code, kwargs)

\* Seeded defect: the toolbox is put on the search path after the code has run.
execute_matlab_call_path_late(w, code, kwargs) ==
    add_to_path(matlab(w, code, kwargs), BCT_PATH)

\* execute_matlab up to and including the submission of the code to the worker.
execute_matlab_call(w, code, kwargs) == matlab(add_to_path(w, BCT_PATH), code, kwargs)

\* execute_matlab from the worker's answer to its return statement.
execute_matlab_return(runcode, matlablog, result) == result

\* Seeded defect: a missing key yields an empty measure (result.get(key)).
build_connectivity_measure_get(h, result, key, connectivity, title, label_x, label_y) ==
    IF key \notin DOMAIN result
    THEN Built(h, ConnectivityMeasure([kind |-> "array", data |-> <<>>], connectivity,
                                      title, label_x, label_y))
    ELSE Built(h, ConnectivityMeasure(result[key], connectivity, title, label_x, label_y))

\* Seeded defect: the array is also written into the connectivity's weights.
build_connectivity_measure_in_place(h, result, key, connectivity, title, label_x, label_y) ==
    IF key \notin DOMAIN result THEN Raised(h, KeyError(key))
    ELSE Built([h EXCEPT ![connectivity].weights = result[key]],
               ConnectivityMeasure(result[key], connectivity, title, label_x, label_y))

build_connectivity_measure(h, result, key, connectivity, title, label_x, label_y) ==
    IF key \notin DOMAIN result THEN Raised(h, KeyError(key))
    ELSE Built(h, ConnectivityMeasure(result[key], connectivity, title, label_x, label_y))

\* Seeded defect: the value is stored as it came, without float().
build_float_value_wrapper_raw(h, result, key, title) ==
    IF key \notin DOMAIN result THEN Raised(h, KeyError(key))
    ELSE IF ~FloatConvertible(result[key]) THEN Raised(h, TypeError(key))
    ELSE Built(h, ValueWrapper(result[key], "float", title))

build_float_value_wrapper(h, result, key, title) ==
    IF key \notin DOMAIN result THEN Raised(h, KeyError(key))
    ELSE IF ~FloatConvertible(result[key]) THEN Raised(h, TypeError(key))
    ELSE Built(h, ValueWrapper(float(result[key]), "float", title))

build_int_value_wrapper(h, result, key, title) ==
    IF key \notin DOMAIN result THEN Raised(h, KeyError(key))
    ELSE IF ~FloatConvertible(result[key]) THEN Raised(h, TypeError(key))
    ELSE Built(h, ValueWrapper(int(result[key]), "int", title))

(***************************************************************************)
(* BaseUndirected.                                                         *)
(***************************************************************************)
BaseUndirected_get_input_tree(c) ==
    <<[name |-> "connectivity", label |-> ui_connectivity_label(c), type |-> "Connectivity",
       required |-> TRUE,
       conditions |-> <<[fields |-> <<"FilterChain.datatype._undirected">>,
                         operations |-> <<"==">>, values |-> <<"1">>]>>]>>

\* get_input_tree on an instance of class c.
get_input_tree(c) ==
    IF Resolve(c, DefinesInputTree) = "BaseUndirected" THEN BaseUndirected_get_input_tree(c)
    ELSE BaseBCT_get_input_tree(c)

\* The framework's evaluation of a FilterChain against a stored connectivity.
FieldValue(conn, field) ==
    IF field = "FilterChain.datatype._undirected"
    THEN (IF conn.undirected = 1 THEN "1" ELSE "0")
    ELSE "?"
FilterPasses(chain, conn) ==
    \A i \in 1..Len(chain.fields) :
        chain.operations[i] = "==" => FieldValue(conn, chain.fields[i]) = chain.values[i]
SchemaAccepts(tree, conn) ==
    \A i \in 1..Len(tree) : \A j \in 1..Len(tree[i].conditions) :
        FilterPasses(tree[i].conditions[j], conn)

(***************************************************************************)
(* The launch methods: the parameters each prepares, the snippet each      *)
(* submits, and the outputs each gathers from the result.                  *)
(***************************************************************************)
\* What launch leaves behind: exception, heap, and the list it returns.
Returned(h, list) == [exc |-> NoExc, heap |-> h, list |-> list]
Failed(b) == [exc |-> b.exc, heap |-> b.heap, list |-> <<>>]

ModularityOCSM_kwargs(h, connectivity, kwargs) == DictSet(kwargs, "CW", h[connectivity].weights)

ModularityOCSM_gather(h, result, connectivity) ==
    LET measure == build_connectivity_measure(h, result, "Ci", connectivity,
                                              "Optimal Community Structure", "", "")
    IN  IF measure.exc # NoExc THEN Failed(measure)
        ELSE LET value == build_float_value_wrapper(measure.heap, result, "Q",
                                                    "Maximized Modularity")
             IN  IF value.exc # NoExc THEN Failed(value)
                 ELSE Returned(value.heap, <<measure.ref, value.ref>>)

DistanceDBIN_kwargs(h, connectivity, kwargs) == DictSet(kwargs, "A", h[connectivity].weights)

DistanceDBIN_gather(h, result, connectivity) ==
    LET measure == build_connectivity_measure(h, result, "D", connectivity,
                                              "Distance matrix", "", "")
    IN  IF measure.exc # NoExc THEN Failed(measure)
        ELSE Returned(measure.heap, <<measure.ref>>)

DistanceRDM_kwargs(h, connectivity, kwargs) == DictSet(kwargs, "A", h[connectivity].weights)

DistanceRDM_gather(h, result, connectivity) ==
    LET measure1 == build_connectivity_measure(h, result, "R", connectivity,
                                               "Reachability matrix", "", "")
    IN  IF measure1.exc # NoExc THEN Failed(measure1)
        ELSE LET measure2 == build_connectivity_measure(measure1.heap, result, "D",
                                                        connectivity, "Distance matrix", "", "")
             IN  IF measure2.exc # NoExc THEN Failed(measure2)
                 ELSE Returned(measure2.heap, <<measure1.ref, measure2.ref>>)

DistanceNETW_kwargs(h, connectivity, kwargs) == DictSet(kwargs, "A", h[connectivity].weights)

\* Seeded defect: the outputs are returned in the order they were built.
DistanceNETW_gather_build_order(h, result, connectivity) ==
    LET measure1 == build_connectivity_measure(h, result, "Wq", connectivity,
                                               "3D matrix", "", "")
    IN  IF measure1.exc # NoExc THEN Failed(measure1)
        ELSE LET measure2 == build_connectivity_measure(measure1.heap, result, "wlq",
                                                        connectivity,
                                                        "Walk length distribution", "", "")
             IN  IF measure2.exc # NoExc THEN Failed(measure2)
                 ELSE LET value == build_float_value_wrapper(measure2.heap, result, "twalk",
                                                             "Total number of walks found")
                      IN  IF value.exc # NoExc THEN Failed(value)
                          ELSE Returned(value.heap, <<measure1.ref, measure2.ref, value.ref>>)

DistanceNETW_gather(h, result, connectivity) ==
    LET measure1 == build_connectivity_measure(h, result, "Wq", connectivity,
                                               "3D matrix", "", "")
    IN  IF measure1.exc # NoExc THEN Failed(measure1)
        ELSE LET measure2 == build_connectivity_measure(measure1.heap, result, "wlq",
                                                        connectivity,
                                                        "Walk length distribution", "", "")
             IN  IF measure2.exc # NoExc THEN Failed(measure2)
                 ELSE LET value == build_float_value_wrapper(measure2.heap, result, "twalk",
                                                             "Total number of walks found")
                      IN  IF value.exc # NoExc THEN Failed(value)
                          ELSE Returned(value.heap, <<measure1.ref, value.ref, measure2.ref>>)

\* The class whose launch runs on an instance of class c.
launch_impl(c) == Resolve(c, DefinesLaunch)

\* The snippet launch submits: self._matlab_code.
\* Seeded defect: the snippet of the class that defines launch, not of self.
launch_code_of_definer(c) == matlab_code(Resolve(c, DefinesLaunch))

launch_code(c) == matlab_code(c)

launch_kwargs(c, h, connectivity, kwargs) ==
    CASE launch_impl(c) = "ModularityOCSM" -> ModularityOCSM_kwargs(h, connectivity, kwargs)
      [] launch_impl(c) = "DistanceDBIN" -> DistanceDBIN_kwargs(h, connectivity, kwargs)
      [] launch_impl(c) = "DistanceRDM" -> DistanceRDM_kwargs(h, connectivity, kwargs)
      [] launch_impl(c) = "DistanceNETW" -> DistanceNETW_kwargs(h, connectivity, kwargs)

launch_gather(c, h, result, connectivity) ==
    CASE launch_impl(c) = "ModularityOCSM" -> ModularityOCSM_gather(h, result, connectivity)
      [] launch_impl(c) = "DistanceDBIN" -> DistanceDBIN_gather(h, result, connectivity)
      [] launch_impl(c) = "DistanceRDM" -> DistanceRDM_gather(h, result, connectivity)
      [] launch_impl(c) = "DistanceNETW" -> DistanceNETW_gather(h, result, connectivity)

(***************************************************************************)
(* The state machine.                                                      *)
(***************************************************************************)
NoRet == [op |-> "none", cls |-> "None", val |-> <<>>]

\* Extra keyword parameters a caller may pass, and the results an engine may give.
ExtraNames == {"CW", "A", "gamma"}
ExtraValues == {IntVal(1)}
Executables == {NoneStr, Str(<<>>), Str(<<"m", "a", "t", "l", "a", "b">>)}

\* The result mappings the engine may hand back to an adapter of class c: any of
\* the variables its snippet assigns, present or missing, with any value.
EngineResults(c) ==
    IF c \in Variants THEN Dicts(OutputVars(launch_code(c)), EngineValues) ELSE {}

Init ==
    /\ MATLAB_EXECUTABLE \in Executables
    /\ \E w \in Arrays, u \in {0, 1} : heap = <<Connectivity(w, u)>>
    /\ pc = "idle"
    /\ self = "None"
    /\ extra = EmptyDict
    /\ matlab_worker = MatlabWorker
    /\ response = <<>>
    /\ launch_result = EmptyDict
    /\ ret = NoRet
    /\ exc = NoExc

\* The framework asks whether the adapters can be used.
CanBeActive ==
    /\ pc = "idle"
    /\ ret' = [op |-> "can_be_active", cls |-> "BaseBCT",
               val |-> can_be_active(MATLAB_EXECUTABLE)]
    /\ exc' = NoExc
    /\ UNCHANGED <<MATLAB_EXECUTABLE, heap, pc, self, extra, matlab_worker, response, launch_result>>

\* The framework asks an adapter of class c for its input schema.
GetInputTree(c) ==
    /\ pc = "idle"
    /\ ret' = [op |-> "get_input_tree", cls |-> c, val |-> get_input_tree(c)]
    /\ exc' = NoExc
    /\ UNCHANGED <<MATLAB_EXECUTABLE, heap, pc, self, extra, matlab_worker, response, launch_result>>

\* launch(connectivity, **kwargs) on an adapter of class c, up to the point where
\* matlab() has the code and the call blocks.
LaunchCall(c, kwargs) ==
    /\ pc = "idle"
    /\ pc' = "waiting"
    /\ self' = c
    /\ extra' = kwargs
    /\ matlab_worker' = execute_matlab_call(matlab_worker, launch_code(c),
                                            launch_kwargs(c, heap, CONN, kwargs))
    /\ response' = <<>>
    /\ launch_result' = EmptyDict
    /\ ret' = NoRet
    /\ exc' = NoExc
    /\ UNCHANGED <<MATLAB_EXECUTABLE, heap>>

\* matlab() returns (runcode, matlablog, result); launch gathers its outputs and
\* returns them, or raises.
EngineRespond(runcode, matlablog, results) ==
    /\ pc = "waiting"
    /\ LET res == execute_matlab_return(runcode, matlablog, results)
           out == launch_gather(self, heap, res, CONN)
       IN  /\ launch_result' = res
           /\ heap' = out.heap
           /\ exc' = out.exc
           /\ pc' = IF out.exc = NoExc THEN "returned" ELSE "raised"
           /\ ret' = IF out.exc = NoExc
                     THEN [op |-> "launch", cls |-> self, val |-> out.list]
                     ELSE NoRet
    /\ response' = <<[runcode |-> runcode, matlablog |-> matlablog, result |-> results]>>
    /\ UNCHANGED <<MATLAB_EXECUTABLE, self, extra, matlab_worker>>

\* matlab() itself raises (the engine cannot be started): the exception passes
\* through execute_matlab and launch.
EngineRaise ==
    /\ pc = "waiting"
    /\ pc' = "raised"
    /\ exc' = EngineError
    /\ UNCHANGED <<MATLAB_EXECUTABLE, heap, self, extra, matlab_worker, response, launch_result, ret>>

\* The caller takes the outcome; the adapter instance is dropped and the next
\* operation constructs a new one (BaseBCT.__init__: a new MatlabWorker).
Finish ==
    /\ pc \in {"returned", "raised"}
    /\ pc' = "idle"
    /\ self' = "None"
    /\ extra' = EmptyDict
    /\ matlab_worker' = MatlabWorker
    /\ response' = <<>>
    /\ launch_result' = EmptyDict
    /\ ret' = NoRet
    /\ exc' = NoExc
    /\ heap' = <<heap[CONN]>>
    /\ UNCHANGED MATLAB_EXECUTABLE

Next ==
    \/ CanBeActive
    \/ \E c \in Variants : GetInputTree(c)
    \/ \E c \in Variants, kwargs \in Dicts(ExtraNames, ExtraValues) : LaunchCall(c, kwargs)
    \/ \E runcode \in RunCodes, matlablog \in MatlabLogs, results \in EngineResults(self) :
            EngineRespond(runcode, matlablog, results)
    \/ EngineRaise
    \/ Finish

Spec == Init /\ [][Next]_vars

(***************************************************************************)
(* Vocabulary of the properties.                                           *)
(***************************************************************************)
Done == pc \in {"returned", "raised"}
Responded == response # <<>>

\* How many times the worker was asked to run code during the current call.
RunCount == Cardinality({i \in 1..Len(matlab_worker.calls) : matlab_worker.calls[i].op = "matlab"})

ModularityVariants == {"ModularityOCSM", "ModularityOpCSMU"}

\* The keys each variant reads from the result, in the order it reads them.
ReadOrder(c) ==
    CASE c \in ModularityVariants -> <<"Ci", "Q">>
      [] c \in {"DistanceDBIN", "DistanceDWEI"} -> <<"D">>
      [] c \in {"DistanceRDM", "DistanceRDA"} -> <<"R", "D">>
      [] c = "DistanceNETW" -> <<"Wq", "wlq", "twalk">>
ReadKeys(c) == {ReadOrder(c)[i] : i \in 1..Len(ReadOrder(c))}

\* The keys each variant turns into a scalar.
ScalarKeys(c) ==
    CASE c \in ModularityVariants -> {"Q"}
      [] c = "DistanceNETW" -> {"twalk"}
      [] OTHER -> {}

\* The output kinds each variant is to return.
ExpectedKinds(c) ==
    CASE c \in ModularityVariants -> <<"ConnectivityMeasure", "ValueWrapper">>
      [] c \in {"DistanceDBIN", "DistanceDWEI"} -> <<"ConnectivityMeasure">>
      [] c \in {"DistanceRDM", "DistanceRDA"} -> <<"ConnectivityMeasure", "ConnectivityMeasure">>
      [] c = "DistanceNETW" -> <<"ConnectivityMeasure", "ValueWrapper", "ConnectivityMeasure">>

KindsOf(list) == [i \in 1..Len(list) |-> heap[list[i]].type]

ReturnedShape ==
    /\ pc = "returned"
    /\ ret.op = "launch"
    /\ Len(ret.val) > 0
    /\ KindsOf(ret.val) = ExpectedKinds(self)

(***************************************************************************)
(* C1.  As claimed: whenever the engine's response holds every result key  *)
(* of the variant, launch returns a non-empty list of the variant's fixed  *)
(* shape.  This fails: a Q or twalk that float() cannot convert makes      *)
(* launch raise.                                                           *)
(***************************************************************************)
C1_AsClaimed ==
    (Done /\ Responded /\ ReadKeys(self) \subseteq DOMAIN response[1].result)
        => ReturnedShape

(***************************************************************************)
(* C1, amended.  Whenever the engine's response holds every result key of  *)
(* the variant and the values under the keys the variant turns into a      *)
(* scalar (Q, twalk) are convertible to float, launch returns a non-empty  *)
(* list of the variant's fixed shape: [measure, scalar] for modularity,    *)
(* [measure] for distance_bin/wei, [measure, measure] for breadthdist and  *)
(* reachdist, [measure, scalar, measure] for the walks.                    *)
(***************************************************************************)
C1_FixedShape ==
    (/\ Done
     /\ Responded
     /\ ReadKeys(self) \subseteq DOMAIN response[1].result
     /\ \A k \in ScalarKeys(self) :
            \/ response[1].result[k].kind \in {"int", "float"}
            \/ Len(response[1].result[k].data) = 1)
        => ReturnedShape

C1_Witness ==
    /\ pc = "returned"
    /\ self = "DistanceNETW"
    /\ KindsOf(ret.val) = <<"ConnectivityMeasure", "ValueWrapper", "ConnectivityMeasure">>
    /\ heap[ret.val[3]].title = "Walk length distribution"

(***************************************************************************)
(* C2.  A launch call asks the worker to run code exactly once: once the   *)
(* call is under way the worker has been asked once, it has still been     *)
(* asked once when the call ends (returned or raised, whatever the         *)
(* response was), and a call only returns after the worker has answered.   *)
(***************************************************************************)
C2_RunsOnce ==
    /\ pc # "idle" => RunCount = 1
    /\ pc = "idle" => RunCount = 0
    /\ pc = "returned" => Responded
    /\ pc = "waiting" => ~Responded /\ ret.op # "launch"

C2_Witness ==
    /\ pc = "raised"
    /\ Responded
    /\ response[1].runcode # 0
    /\ RunCount = 1

(***************************************************************************)
(* C3.  As claimed: the input schema of an undirected-only variant (the    *)
(* one that runs modularity_und) carries a filter that rejects every       *)
(* connectivity whose undirected flag is not set, and the schema of every  *)
(* other variant accepts directed and undirected connectivities alike.     *)
(***************************************************************************)
UndirectedOnly == {c \in Variants : CalledFunction(matlab_code(c)) = "modularity_und"}
DirectedConnectivity == Connectivity(ArrayVal(1), 0)
UndirectedConnectivity == Connectivity(ArrayVal(1), 1)

C3_AsClaimed ==
    ret.op = "get_input_tree" =>
        /\ SchemaAccepts(ret.val, UndirectedConnectivity)
        /\ ret.cls \in UndirectedOnly => ~SchemaAccepts(ret.val, DirectedConnectivity)
        /\ ret.cls \notin UndirectedOnly => SchemaAccepts(ret.val, DirectedConnectivity)

(***************************************************************************)
(* C4.  As claimed: launch never returns an output list for a run whose    *)
(* status code is not the success code.                                    *)
(***************************************************************************)
C4_AsClaimed == pc = "returned" => response[1].runcode = 0

(***************************************************************************)
(* C5.  If a key the variant reads is missing from the engine's result,    *)
(* launch raises a KeyError for the first missing key in reading order,    *)
(* returns no list (not even the outputs built before that key), and the   *)
(* worker is not asked again.                                              *)
(***************************************************************************)
FirstMissing(c, res) ==
    LET order == ReadOrder(c)
        i == CHOOSE j \in 1..Len(order) :
                /\ order[j] \notin DOMAIN res
                /\ \A k \in 1..(j - 1) : order[k] \in DOMAIN res
    IN  order[i]

C5_MissingKeyFails ==
    (Done /\ Responded /\ ~(ReadKeys(self) \subseteq DOMAIN response[1].result))
        => /\ pc = "raised"
           /\ exc = [type |-> "KeyError", arg |-> FirstMissing(self, response[1].result)]
           /\ ret.op = "none"
           /\ RunCount = 1

\* A measure was built from R before D was found missing; nothing is returned.
C5_Witness ==
    /\ pc = "raised"
    /\ self = "DistanceRDM"
    /\ exc = [type |-> "KeyError", arg |-> "D"]
    /\ Len(heap) = 2
    /\ ret.op = "none"

(***************************************************************************)
(* C6.  ModularityOCSM submits exactly "[Ci,Q] = modularity_dir(CW);" with *)
(* CW bound to the connectivity's weights, and for a response {Ci: c,      *)
(* Q: q} with q convertible to float it returns exactly [the measure with  *)
(* array c untouched, the input connectivity and the title "Optimal        *)
(* Community Structure"; the scalar float(q) of type float titled          *)
(* "Maximized Modularity"].                                                *)
(***************************************************************************)
C6_ModularityExample ==
    self = "ModularityOCSM" =>
        /\ pc # "idle" =>
              LET call == matlab_worker.calls[Len(matlab_worker.calls)]
              IN  /\ call.op = "matlab"
                  /\ call.code = "[Ci,Q] = modularity_dir(CW);"
                  /\ call.data["CW"] = heap[CONN].weights
        /\ (/\ Done
            /\ Responded
            /\ {"Ci", "Q"} \subseteq DOMAIN response[1].result
            /\ \/ response[1].result["Q"].kind \in {"int", "float"}
               \/ Len(response[1].result["Q"].data) = 1)
              => /\ pc = "returned"
                 /\ Len(ret.val) = 2
                 /\ heap[ret.val[1]] =
                        [type |-> "ConnectivityMeasure",
                         array_data |-> response[1].result["Ci"],
                         connectivity |-> CONN,
                         title |-> "Optimal Community Structure",
                         label_x |-> "", label_y |-> ""]
                 /\ heap[ret.val[2]] =
                        [type |-> "ValueWrapper",
                         data_value |-> [kind |-> "float",
                                         data |-> <<response[1].result["Q"].data[1]>>],
                         data_type |-> "float",
                         data_name |-> "Maximized Modularity"]

\* The engine answered with an int-valued Q and an array Ci other than the weights.
C6_Witness ==
    /\ pc = "returned"
    /\ self = "ModularityOCSM"
    /\ response[1].result["Q"].kind = "int"
    /\ response[1].result["Ci"] # heap[CONN].weights
    /\ heap[ret.val[2]].data_value.kind = "float"

(***************************************************************************)
(* C7.  can_be_active returns false when the executable path is unset or   *)
(* empty and true for every non-empty path; the query asks nothing of the  *)
(* worker and changes nothing but its own return value.                    *)
(***************************************************************************)
C7_Availability ==
    /\ [](ret.op = "can_be_active" =>
            /\ (MATLAB_EXECUTABLE.isNone \/ MATLAB_EXECUTABLE.chars = <<>>) => ret.val = FALSE
            /\ (~MATLAB_EXECUTABLE.isNone /\ MATLAB_EXECUTABLE.chars # <<>>) => ret.val = TRUE
            /\ matlab_worker.calls = <<>>)
    /\ [][ret'.op = "can_be_active" =>
            UNCHANGED <<MATLAB_EXECUTABLE, heap, pc, self, extra, matlab_worker,
                        response, launch_result>>]_vars

C7_Witness ==
    /\ ret.op = "can_be_active"
    /\ ret.val = FALSE
    /\ ~MATLAB_EXECUTABLE.isNone

(***************************************************************************)
(* C8.  No step of any launch, returning or raising, changes the input     *)
(* connectivity; the measures built refer to it.                           *)
(***************************************************************************)
C8_ConnectivityUntouched ==
    /\ [][heap'[CONN] = heap[CONN]]_vars
    /\ [](pc = "returned" =>
            \A i \in 1..Len(ret.val) :
                heap[ret.val[i]].type = "ConnectivityMeasure"
                    => heap[ret.val[i]].connectivity = CONN)

C8_Witness ==
    /\ pc = "returned"
    /\ heap[ret.val[1]].array_data # heap[CONN].weights
    /\ heap[ret.val[1]].connectivity = CONN

(***************************************************************************)
(* C9.  Every request to run code is preceded, within the same call, by    *)
(* the request that puts the toolbox path on the worker's search path, and *)
(* what execute_matlab hands back to launch is the result mapping the      *)
(* worker produced.                                                        *)
(***************************************************************************)
C9_PathBeforeRun ==
    /\ \A i \in 1..Len(matlab_worker.calls) :
          matlab_worker.calls[i].op = "matlab" =>
              /\ \E j \in 1..(i - 1) :
                    /\ matlab_worker.calls[j].op = "add_to_path"
                    /\ matlab_worker.calls[j].path = BCT_PATH
              /\ BCT_PATH \in matlab_worker.calls[i].paths
    /\ Responded => launch_result = response[1].result

C9_Witness ==
    /\ pc = "returned"
    /\ Len(matlab_worker.calls) = 2
    /\ matlab_worker.calls[2].op = "matlab"
    /\ launch_result # EmptyDict

====
